---- MODULE Spec2Model ----
(***************************************************************************)
(* The diet optimizer of src/src/optimization/diet_optimizer.py as a state *)
(* machine: one optimize / optimize_for_macros call at a time, from the    *)
(* construction of the linear program to the returned result.              *)
(*                                                                         *)
(* Units.  The source works in IEEE doubles; the model works in exact      *)
(* integers on a grid:                                                     *)
(*   - a quantity is a number of tenths of a gram (the materiality         *)
(*     threshold `quantity > 0.1` of the source is `quantity > 1` here);   *)
(*   - a nutrient amount is per 100 g, as in the source;                   *)
(*   - a nutrient total `amount * quantity / 100.0` is kept as             *)
(*     amount * quantity, i.e. in thousandths of the nutrient's unit, and  *)
(*     the targets are in the same unit;                                   *)
(*   - a cost `price / 4.536 * quantity / 100.0` and a prorated price      *)
(*     `price * (quantity / 453.6)` are both kept as the numerator         *)
(*     price * quantity over the fixed denominator 4536.                   *)
(* Floating-point rounding is outside the model.                           *)
(***************************************************************************)
EXTENDS Integers, Sequences, FiniteSets, TLC

VARIABLES
    pc,                     \* "idle" | "solve" | "returned" | "raised"
    entry,                  \* which entry point the caller used
    foods,                  \* food_key -> nutrient list of the USDAFood
    prices,                 \* food_key -> price
    nutrition_targets,      \* nutrient_name -> <<min, max>>
    max_quantity_per_food,  \* the cap passed to optimize
    time_limit,             \* the time_limit passed to optimize
    macro_args,             \* arguments of optimize_for_macros, None otherwise
    prob,                   \* the LpProblem built by optimize
    expired,                \* time_limit seconds have passed since solve() began
    status,                 \* LpStatus[prob.status]
    varValue,               \* food_key -> value(var) after the solve
    ret,                    \* what optimize returned
    optimizers,             \* instance -> its attributes (self.problem_name)
    calls,                  \* caller -> the locals of its call of optimize
    solver,                 \* how this run's solver settles what is left open
    usda,                   \* USDAClient._make_request_with_retry in progress
    cache,                  \* NutritionCache and the USDAClient that reads through it
    kroger,                 \* KrogerClient: token fields and the request in progress
    session,                \* the dashboard's st.session_state
    saved_plans             \* the files of the saved_plans directory

vars == <<pc, entry, foods, prices, nutrition_targets, max_quantity_per_food,
          time_limit, macro_args, prob, expired, status, varValue, ret,
          optimizers, calls, solver, usda, cache, kroger, session, saved_plans>>

optimization == <<pc, entry, foods, prices, nutrition_targets,
                  max_quantity_per_food, time_limit, macro_args, prob, expired,
                  status, varValue, ret, optimizers, calls, solver>>
ingestion == <<usda, cache, kroger>>
dashboard == <<session, saved_plans>>

(***************************************************************************)
(* Bounds of the model.                                                    *)
(***************************************************************************)
MaxQty == 2       \* largest cap a caller passes, in tenths of a gram
MaxAmount == 2    \* largest nutrient amount per 100 g in a catalog
MaxPrice == 2     \* largest price in a price list
MaxTarget == 2    \* largest bound of a nutrient target
MaxMacro == 1     \* largest point target given to optimize_for_macros

TolDen == 2       \* tolerance t stands for the fraction t / TolDen

(***************************************************************************)
(* Python values.                                                          *)
(***************************************************************************)
None == << >>
Some(v) == <<v>>
IsNone(x) == x = None
Val(x) == x[1]

RECURSIVE SumOver(_, _)
SumOver(S, f) ==
    IF S = {} THEN 0
    ELSE LET k == CHOOSE x \in S : TRUE
         IN f[k] + SumOver(S \ {k}, f)

PartialFns(D, R) == UNION {[S -> R] : S \in SUBSET D}

(***************************************************************************)
(* Names.  str.lower() on the nutrient names the model uses.               *)
(***************************************************************************)
Energy == "Energy"
Protein == "Protein"
Carbohydrate == "Carbohydrate, by difference"
Fat == "Total lipid (fat)"

Lower(name) ==
    CASE name = "Energy" -> "energy"
      [] name = "energy" -> "energy"
      [] name = "Protein" -> "protein"
      [] name = "protein" -> "protein"
      [] name = "Carbohydrate, by difference" -> "carbohydrate, by difference"
      [] name = "Total lipid (fat)" -> "total lipid (fat)"
      [] OTHER -> name

(***************************************************************************)
(* The inputs a caller may pass.                                           *)
(***************************************************************************)
FoodKeys == {"chicken", "rice"}

NutrientInfo(n, a) == [name |-> n, amount |-> a]

\* USDAFood.nutrients: a list of NutrientInfo.  A food may lack a nutrient,
\* carry it with amount 0, or carry it under another letter case.
Profiles ==
    {<< >>}
    \cup {<<NutrientInfo(Protein, a)>> : a \in {0, 1, MaxAmount}}
    \cup {<<NutrientInfo("protein", 1)>>}
    \cup {<<NutrientInfo(Protein, 1), NutrientInfo(Energy, 1)>>}

Catalogs == PartialFns(FoodKeys, Profiles)

PriceLists == PartialFns(FoodKeys, {0, 1, MaxPrice})

TargetBounds == {None} \cup {Some(v) : v \in {1, MaxTarget}}

TargetMaps ==
    {t \in PartialFns({Protein, Energy}, TargetBounds \X TargetBounds) :
        Energy \in DOMAIN t => t[Energy] = <<None, Some(MaxTarget)>>}

Caps == {1, MaxQty}

DefaultMaxQuantity == MaxQty   \* max_quantity_per_food: float = 1000.0, on the grid
DefaultTimeLimit == 60         \* time_limit: int = 60

(***************************************************************************)
(* USDAFood.get_nutrient: the amount of the first entry whose lower-cased  *)
(* name equals the lower-cased nutrient_name, None when there is none.     *)
(***************************************************************************)
\* faulty variant: the names are compared as they are, without lower()
RECURSIVE get_nutrient_from_Exact(_, _, _)
get_nutrient_from_Exact(nutrients, nutrient_name, i) ==
    IF i > Len(nutrients) THEN None
    ELSE IF nutrients[i].name = nutrient_name
         THEN Some(nutrients[i].amount)
         ELSE get_nutrient_from_Exact(nutrients, nutrient_name, i + 1)

RECURSIVE get_nutrient_from(_, _, _)
get_nutrient_from(nutrients, nutrient_name, i) ==
    IF i > Len(nutrients) THEN None
    ELSE IF Lower(nutrients[i].name) = Lower(nutrient_name)
         THEN Some(nutrients[i].amount)
         ELSE get_nutrient_from(nutrients, nutrient_name, i + 1)

get_nutrient(food, nutrient_name) == get_nutrient_from(food, nutrient_name, 1)

\* `x or 0` for x a float or None
OrZero(x) == IF IsNone(x) \/ Val(x) = 0 THEN 0 ELSE Val(x)

\* `if x:` for x a float or None
Truthy(x) == ~IsNone(x) /\ Val(x) # 0

(***************************************************************************)
(* Construction of the LP (optimize, lines 89-130).                        *)
(***************************************************************************)
\* faulty variant: upBound is the default cap, not the one passed in
food_vars_DefaultCap(fs, cap) ==
    [k \in DOMAIN fs |-> [lowBound |-> 0, upBound |-> DefaultMaxQuantity]]

\* one LpVariable per food key, lowBound=0, upBound=max_quantity_per_food
food_vars(fs, cap) ==
    [k \in DOMAIN fs |-> [lowBound |-> 0, upBound |-> cap]]

\* cost_per_100g = price / 4.536 for every key of prices (numerator kept)
cost_per_100g(ps) == [k \in DOMAIN ps |-> ps[k]]

\* lpSum of cost_per_100g[k] * food_vars[k] / 100.0 over the foods in prices
Objective(fs, ps) ==
    [k \in (DOMAIN fs) \cap (DOMAIN ps) |-> cost_per_100g(ps)[k]]

\* lpSum of (get_nutrient(n) or 0) * food_vars[k] / 100.0 over all foods
nutrient_sum(fs, n) ==
    [k \in DOMAIN fs |-> OrZero(get_nutrient(fs[k], n))]

\* faulty variant: an absent max is read as 0 and constrains like any other
ConstraintsOf_NoneAsZero(fs, n, target) ==
    (IF ~IsNone(target[1])
     THEN {[name |-> <<"Min", n>>, coef |-> nutrient_sum(fs, n),
            sense |-> ">=", rhs |-> Val(target[1])]}
     ELSE {})
    \cup
    {[name |-> <<"Max", n>>, coef |-> nutrient_sum(fs, n),
      sense |-> "<=", rhs |-> IF IsNone(target[2]) THEN 0 ELSE Val(target[2])]}

\* the constraints added for one nutrient target
ConstraintsOf(fs, n, target) ==
    (IF ~IsNone(target[1])
     THEN {[name |-> <<"Min", n>>, coef |-> nutrient_sum(fs, n),
            sense |-> ">=", rhs |-> Val(target[1])]}
     ELSE {})
    \cup
    (IF ~IsNone(target[2])
     THEN {[name |-> <<"Max", n>>, coef |-> nutrient_sum(fs, n),
            sense |-> "<=", rhs |-> Val(target[2])]}
     ELSE {})

Constraints(fs, ts) ==
    UNION {ConstraintsOf(fs, n, ts[n]) : n \in DOMAIN ts}

\* faulty variant: the problem is created with LpMaximize
BuildProblem_Maximize(fs, ps, ts, cap) ==
    [sense |-> "LpMaximize",
     vars |-> [k \in DOMAIN fs |-> [lowBound |-> 0, upBound |-> cap]],
     objective |-> [k \in (DOMAIN fs) \cap (DOMAIN ps) |-> ps[k]],
     constraints |->
        UNION {(IF ~IsNone(ts[n][1])
                THEN {[name |-> <<"Min", n>>,
                       coef |-> [k \in DOMAIN fs |-> OrZero(get_nutrient(fs[k], n))],
                       sense |-> ">=", rhs |-> Val(ts[n][1])]}
                ELSE {})
               \cup
               (IF ~IsNone(ts[n][2])
                THEN {[name |-> <<"Max", n>>,
                       coef |-> [k \in DOMAIN fs |-> OrZero(get_nutrient(fs[k], n))],
                       sense |-> "<=", rhs |-> Val(ts[n][2])]}
                ELSE {}) : n \in DOMAIN ts}]

BuildProblem(fs, ps, ts, cap) ==
    [sense |-> "LpMinimize",
     vars |-> food_vars(fs, cap),
     objective |-> Objective(fs, ps),
     constraints |-> Constraints(fs, ts)]

(***************************************************************************)
(* prob.solve() (line 135), the PuLP library and its default solver.       *)
(* PuLP drops a term with coefficient 0 from an expression, and            *)
(* LpProblem.variables() are the variables left in the objective or in a   *)
(* constraint; only those are given a value by the solve, the varValue of  *)
(* any other LpVariable stays None.  On the grid the solver returns a      *)
(* minimum-cost point of the feasible region when there is one.            *)
(***************************************************************************)
ProblemVariables(p) ==
    {k \in DOMAIN p.vars :
        \/ (k \in DOMAIN p.objective /\ p.objective[k] # 0)
        \/ \E c \in p.constraints : c.coef[k] # 0}

Assignments(p) ==
    LET V == ProblemVariables(p)
        G == UNION {p.vars[k].lowBound..p.vars[k].upBound : k \in V}
    IN  {x \in [V -> G] :
            \A k \in V : /\ x[k] >= p.vars[k].lowBound
                         /\ x[k] <= p.vars[k].upBound}

Lhs(c, x) == SumOver(DOMAIN x, [k \in DOMAIN x |-> c.coef[k] * x[k]])

Satisfies(c, x) ==
    IF c.sense = ">=" THEN Lhs(c, x) >= c.rhs ELSE Lhs(c, x) <= c.rhs

FeasibleRegion(p) ==
    {x \in Assignments(p) : \A c \in p.constraints : Satisfies(c, x)}

ObjectiveValue(p, x) ==
    LET D == (DOMAIN x) \cap (DOMAIN p.objective)
    IN  SumOver(D, [k \in D |-> p.objective[k] * x[k]])

Better(p, a, b) ==
    IF p.sense = "LpMinimize" THEN a <= b ELSE a >= b

OptimalSolutions(p) ==
    LET F == FeasibleRegion(p)
    IN  {x \in F : \A y \in F : Better(p, ObjectiveValue(p, x), ObjectiveValue(p, y))}

\* the (status, solution) pairs the solve can end with
SolverOutcomes(p) ==
    IF FeasibleRegion(p) = {}
    THEN {[status |-> s, x |-> << >>] : s \in {"Infeasible", "Undefined"}}
    ELSE {[status |-> "Optimal", x |-> x] : x \in OptimalSolutions(p)}

\* value(var) for every LpVariable of food_vars after the solve
VarValues(p, x) ==
    [k \in DOMAIN p.vars |-> IF k \in DOMAIN x THEN Some(x[k]) ELSE None]

(***************************************************************************)
(* Result extraction (optimize, lines 137-183).                            *)
(***************************************************************************)
Threshold == 1    \* `quantity > 0.1`, in tenths of a gram

\* value(prob.objective)
total_cost(p, vv) ==
    LET D == {k \in DOMAIN p.objective : p.objective[k] # 0}
    IN  SumOver(D, [k \in D |-> p.objective[k] * Val(vv[k])])

\* faulty variant: an unpriced food is given the price 1
PricesGet_DefaultOne(ps, k) == IF k \in DOMAIN ps THEN ps[k] ELSE 1

\* prices.get(food_key, 0)
PricesGet(ps, k) == IF k \in DOMAIN ps THEN ps[k] ELSE 0

\* faulty variant: a food solved at exactly the threshold is listed
IsSelected_AtLeast(quantity) == quantity >= Threshold

IsSelected(quantity) == quantity > Threshold

selected_foods(fs, ps, vv) ==
    [k \in {f \in DOMAIN fs : IsSelected(Val(vv[f]))} |->
        [quantity_grams |-> Val(vv[k]),
         food |-> fs[k],
         price |-> PricesGet(ps, k) * Val(vv[k])]]

\* faulty variant: every target nutrient gets an entry, 0 when no food has it
total_nutrients_AllTargets(fs, ts, sel) ==
    LET Has(n) == {k \in DOMAIN sel : Truthy(get_nutrient(fs[k], n))}
    IN  [n \in DOMAIN ts |->
            SumOver(Has(n), [k \in Has(n) |->
                Val(get_nutrient(fs[k], n)) * sel[k].quantity_grams])]

\* total_nutrients gets a key only when a selected food has a truthy amount
total_nutrients(fs, ts, sel) ==
    LET Has(n) == {k \in DOMAIN sel : Truthy(get_nutrient(fs[k], n))}
    IN  [n \in {m \in DOMAIN ts : Has(m) # {}} |->
            SumOver(Has(n), [k \in Has(n) |->
                Val(get_nutrient(fs[k], n)) * sel[k].quantity_grams])]

ReturnNone == [kind |-> "None"]
RaiseTypeError == [kind |-> "raise", error |-> "TypeError"]

\* faulty variant: only the status "Infeasible" is taken for "no solution"
ExtractResult_OnlyInfeasible(fs, ps, ts, p, st, vv) ==
    IF st = "Infeasible" THEN ReturnNone
    ELSE IF \E k \in DOMAIN vv : IsNone(vv[k])
         THEN RaiseTypeError
         ELSE LET sel == selected_foods(fs, ps, vv)
              IN  [kind |-> "result",
                   status |-> st,
                   total_cost |-> total_cost(p, vv),
                   selected_foods |-> sel,
                   total_nutrients |-> total_nutrients(fs, ts, sel),
                   targets |-> ts,
                   num_foods |-> Cardinality(DOMAIN sel)]

\* faulty variant: the echoed targets keep only the nutrients that got a total
ExtractResult_TargetsRewritten(fs, ps, ts, p, st, vv) ==
    IF st # "Optimal" THEN ReturnNone
    ELSE IF \E k \in DOMAIN vv : IsNone(vv[k])
         THEN RaiseTypeError
         ELSE LET sel == selected_foods(fs, ps, vv)
                  tn == total_nutrients(fs, ts, sel)
              IN  [kind |-> "result",
                   status |-> st,
                   total_cost |-> total_cost(p, vv),
                   selected_foods |-> sel,
                   total_nutrients |-> tn,
                   targets |-> [n \in DOMAIN tn |-> ts[n]],
                   num_foods |-> Cardinality(DOMAIN sel)]

ExtractResult(fs, ps, ts, p, st, vv) ==
    IF st # "Optimal" THEN ReturnNone
    ELSE IF \E k \in DOMAIN vv : IsNone(vv[k])
         THEN RaiseTypeError      \* `None > 0.1` at line 155
         ELSE LET sel == selected_foods(fs, ps, vv)
              IN  [kind |-> "result",
                   status |-> st,
                   total_cost |-> total_cost(p, vv),
                   selected_foods |-> sel,
                   total_nutrients |-> total_nutrients(fs, ts, sel),
                   targets |-> ts,
                   num_foods |-> Cardinality(DOMAIN sel)]

(***************************************************************************)
(* SimpleDietOptimizer.optimize_for_macros (lines 271-289): the interval   *)
(* (target * (1 - tolerance), target * (1 + tolerance)) with the tolerance *)
(* t / TolDen, kept as the numerators over TolDen.                          *)
(***************************************************************************)
\* faulty variant: the upper bound is computed with (1 - tolerance) as well
Interval_LowerTwice(target, t) ==
    <<Some(target * (TolDen - t)), Some(target * (TolDen - t))>>

\* faulty variant: a derived minimum below 0 is clamped to 0
Interval_Clamped(target, t) ==
    <<Some(IF target * (TolDen - t) < 0 THEN 0 ELSE target * (TolDen - t)),
      Some(target * (TolDen + t))>>

Interval(target, t) ==
    <<Some(target * (TolDen - t)), Some(target * (TolDen + t))>>

MacroTargets(a) ==
    (Energy :> Interval(a.target_calories, a.tolerance))
    @@ (Protein :> Interval(a.target_protein_g, a.tolerance))
    @@ (Carbohydrate :> Interval(a.target_carbs_g, a.tolerance))
    @@ (Fat :> Interval(a.target_fat_g, a.tolerance))

\* tolerance 0, a fraction inside (0, 1), exactly 1, and above 1
Tolerances == {0, 1, TolDen, TolDen + 1}

MacroArgs ==
    [target_calories : {0, MaxMacro}, target_protein_g : {0, MaxMacro},
     target_carbs_g : {0, MaxMacro}, target_fat_g : {0, MaxMacro},
     tolerance : Tolerances]

NoMacroArgs ==
    [target_calories |-> 0, target_protein_g |-> 0, target_carbs_g |-> 0,
     target_fat_g |-> 0, tolerance |-> 0]

(***************************************************************************)
(* The state machine.                                                      *)
(***************************************************************************)
NoProblem == BuildProblem(<< >>, << >>, << >>, 0)
Pending == [kind |-> "pending"]

(***************************************************************************)
(* Optimizer instances and callers that run optimize at the same time.     *)
(* __init__ stores problem_name on the instance (lines 43-51); everything  *)
(* else optimize works on is a local of the call (lines 89-176).  A solver *)
(* is deterministic: given the same problem it ends the same way, which is *)
(* one resolution of every choice SolverOutcomes leaves open.              *)
(***************************************************************************)
Instances == {"a", "b"}

DefaultName == "Nutritional Arbitrage"

Constructed ==
    [i \in Instances |->
        [problem_name |-> IF i = "a" THEN DefaultName ELSE "Weekly Plan"]]

Callers == {"s1", "s2"}

IdleCall ==
    [pc |-> "idle", self |-> "a", overlapped |-> FALSE,
     foods |-> << >>, prices |-> << >>, nutrition_targets |-> << >>,
     max_quantity_per_food |-> 0,
     prob |-> [name |-> DefaultName, lp |-> NoProblem],
     status |-> "Not Solved", varValue |-> << >>, ret |-> Pending]

NoCalls == [c \in Callers |-> IdleCall]

Solvers == {"lowest", "highest"}

Weight(k) == IF k = "chicken" THEN 1 ELSE MaxQty + 1

Code(x) == SumOver(DOMAIN x, [k \in DOMAIN x |-> x[k] * Weight(k)])

SolveWith(p, s) ==
    IF FeasibleRegion(p) = {}
    THEN [status |-> IF s = "lowest" THEN "Infeasible" ELSE "Undefined",
          x |-> << >>]
    ELSE LET O == OptimalSolutions(p)
         IN  [status |-> "Optimal",
              x |-> IF s = "lowest"
                    THEN CHOOSE x \in O : \A y \in O : Code(x) <= Code(y)
                    ELSE CHOOSE x \in O : \A y \in O : Code(x) >= Code(y)]

\* faulty variant: the name of the problem changes how ties are broken
Solve_NameSensitive(np, s) ==
    SolveWith(np.lp, IF np.name = DefaultName THEN s
                     ELSE CHOOSE t \in Solvers : t # s)

\* prob.solve() on the problem of one call (line 135)
Solve(np, s) == SolveWith(np.lp, s)

\* the locals of a call when it reaches prob.solve() (lines 89-135)
StartCall(i, fs, ps, ts, cap) ==
    [pc |-> "solve", self |-> i, overlapped |-> FALSE,
     foods |-> fs, prices |-> ps, nutrition_targets |-> ts,
     max_quantity_per_food |-> cap,
     prob |-> [name |-> optimizers[i].problem_name,
               lp |-> BuildProblem(fs, ps, ts, cap)],
     status |-> "Not Solved", varValue |-> << >>, ret |-> Pending]

\* faulty variant: prob is kept on self, so a call replaces the problem of
\* every call running on the same instance
WriteLocals_OnSelf(cs, c, r) ==
    [d \in DOMAIN cs |->
        IF d = c THEN r
        ELSE IF cs[d].pc = "solve" /\ cs[d].self = r.self
             THEN [cs[d] EXCEPT !.prob = r.prob]
             ELSE cs[d]]

\* the locals belong to the call that assigns them
WriteLocals(cs, c, r) == [cs EXCEPT ![c] = r]

\* faulty variant: the price lookup is prices.setdefault(food_key, 0), which
\* writes the missing keys into the caller's mapping
FinishCall_SetDefault(r, s) ==
    LET o == Solve(r.prob, s)
        vv == VarValues(r.prob.lp, o.x)
    IN  [r EXCEPT !.pc = "done",
                  !.status = o.status,
                  !.varValue = vv,
                  !.prices = [k \in DOMAIN r.foods |-> PricesGet(r.prices, k)],
                  !.ret = ExtractResult(r.foods, r.prices, r.nutrition_targets,
                                        r.prob.lp, o.status, vv)]

\* the locals of a call when optimize returns (lines 135-183)
FinishCall(r, s) ==
    LET o == Solve(r.prob, s)
        vv == VarValues(r.prob.lp, o.x)
    IN  [r EXCEPT !.pc = "done",
                  !.status = o.status,
                  !.varValue = vv,
                  !.ret = ExtractResult(r.foods, r.prices, r.nutrition_targets,
                                        r.prob.lp, o.status, vv)]

\* history: calls that were inside optimize at the same time
MarkOverlapped(cs) ==
    IF \A c \in DOMAIN cs : cs[c].pc = "solve"
    THEN [c \in DOMAIN cs |-> [cs[c] EXCEPT !.overlapped = TRUE]]
    ELSE cs

(***************************************************************************)
(* The other components before anything has called them.                   *)
(***************************************************************************)
\* no request of USDAClient._make_request_with_retry is in progress
NoRequest ==
    [pc |-> "idle", url |-> << >>, max_retries |-> 0, attempt |-> 0,
     outcomes |-> << >>, slept |-> << >>, ret |-> Pending]

\* NutritionCache after _create_tables, and a USDAClient that made no call
NoCacheCall ==
    [op |-> "none", fdc_id |-> 0, query |-> "", hit |-> FALSE, known |-> FALSE,
     requests |-> 0, ret |-> None]

NewCache ==
    [use_cache |-> TRUE, usda_foods |-> << >>, search_cache |-> << >>,
     written |-> << >>, replaced |-> {}, fetched |-> {}, call |-> NoCacheCall]

\* no KrogerClient has been constructed
NoKroger ==
    [constructed |-> FALSE, access_token |-> None, token_expires_at |-> None,
     now |-> 0, issued |-> 0,
     pc |-> "idle", op |-> "none", started |-> 0, token_at_start |-> None,
     deadline_at_start |-> None, refreshed_first |-> FALSE,
     attempt |-> 0, outcomes |-> << >>, sent |-> << >>, slept |-> << >>,
     refreshes |-> 0, ret |-> Pending, raw |-> None, product |-> None]

\* no button of the dashboard pressed yet
NoAppCall ==
    [op |-> "none", max_budget |-> None, num_days |-> 1, warned |-> FALSE,
     selected_plan |-> "", error |-> None]

\* st.session_state after init_session_state
NewSession ==
    [optimization_result |-> None, optimization_history |-> << >>,
     call |-> NoAppCall]

\* the saved_plans directory has no file
NoPlans == << >>

Init ==
    /\ pc = "idle"
    /\ entry = "none"
    /\ foods = << >>
    /\ prices = << >>
    /\ nutrition_targets = << >>
    /\ max_quantity_per_food = 0
    /\ time_limit = 0
    /\ macro_args = NoMacroArgs
    /\ prob = NoProblem
    /\ expired = FALSE
    /\ status = "Not Solved"
    /\ varValue = << >>
    /\ ret = Pending
    /\ optimizers = Constructed
    /\ calls = NoCalls
    /\ solver = "lowest"
    /\ usda = NoRequest
    /\ cache = NewCache
    /\ kroger = NoKroger
    /\ session = NewSession
    /\ saved_plans = NoPlans

\* optimize up to the call of prob.solve() (lines 84-135)
Enter(fs, ps, ts, cap, tl) ==
    /\ foods' = fs
    /\ prices' = ps
    /\ nutrition_targets' = ts
    /\ max_quantity_per_food' = cap
    /\ time_limit' = tl
    /\ prob' = BuildProblem(fs, ps, ts, cap)
    /\ expired' = FALSE
    /\ status' = "Not Solved"
    /\ varValue' = << >>
    /\ ret' = Pending
    /\ pc' = "solve"
    /\ UNCHANGED <<optimizers, calls, solver, ingestion, dashboard>>

Optimize ==
    /\ pc = "idle"
    /\ \E fs \in Catalogs, ps \in PriceLists, ts \in TargetMaps, cap \in Caps :
          Enter(fs, ps, ts, cap, DefaultTimeLimit)
    /\ entry' = "optimize"
    /\ macro_args' = NoMacroArgs

OptimizeForMacros ==
    /\ pc = "idle"
    /\ \E fs \in Catalogs, ps \in PriceLists, a \in MacroArgs :
          /\ macro_args' = a
          /\ Enter(fs, ps, MacroTargets(a), DefaultMaxQuantity, DefaultTimeLimit)
    /\ entry' = "optimize_for_macros"

\* the wall clock passes time_limit while the solver runs; nothing in
\* optimize hands time_limit to the solver
TimeLimitExpires ==
    /\ pc = "solve"
    /\ ~expired
    /\ expired' = TRUE
    /\ UNCHANGED <<pc, entry, foods, prices, nutrition_targets,
                   max_quantity_per_food, time_limit, macro_args, prob,
                   status, varValue, ret, optimizers, calls, solver, ingestion, dashboard>>

\* prob.solve() returns and optimize runs to its end (lines 135-183)
SolveReturns ==
    /\ pc = "solve"
    /\ \E o \in SolverOutcomes(prob) :
          /\ status' = o.status
          /\ varValue' = VarValues(prob, o.x)
          /\ ret' = ExtractResult(foods, prices, nutrition_targets, prob,
                                  o.status, VarValues(prob, o.x))
    /\ pc' = "done"
    /\ UNCHANGED <<entry, foods, prices, nutrition_targets,
                   max_quantity_per_food, time_limit, macro_args, prob, expired,
                   optimizers, calls, solver, ingestion, dashboard>>

\* the caller is done with the outcome; the optimizer keeps nothing of the call
Release ==
    /\ pc = "done"
    /\ pc' = "idle"
    /\ entry' = "none"
    /\ foods' = << >>
    /\ prices' = << >>
    /\ nutrition_targets' = << >>
    /\ max_quantity_per_food' = 0
    /\ time_limit' = 0
    /\ macro_args' = NoMacroArgs
    /\ prob' = NoProblem
    /\ expired' = FALSE
    /\ status' = "Not Solved"
    /\ varValue' = << >>
    /\ ret' = Pending
    /\ UNCHANGED <<optimizers, calls, solver, ingestion, dashboard>>

Next ==
    \/ Optimize
    \/ OptimizeForMacros
    \/ TimeLimitExpires
    \/ SolveReturns
    \/ Release

Spec == Init /\ [][Next]_vars

(***************************************************************************)
(* Two callers running optimize, on the same or on different instances,    *)
(* their steps interleaved in every order.                                 *)
(***************************************************************************)
ConcCatalogs ==
    {[chicken |-> <<NutrientInfo(Protein, MaxAmount)>>,
      rice |-> <<NutrientInfo(Protein, 1)>>],
     [chicken |-> <<NutrientInfo(Protein, 1)>>,
      rice |-> <<NutrientInfo(Energy, 1)>>]}

ConcPriceLists == {<< >>, [chicken |-> MaxPrice, rice |-> 1]}

ConcTargetMaps ==
    {[n \in {Protein} |-> <<lo, hi>>] : lo \in TargetBounds, hi \in TargetBounds}

single == <<pc, entry, foods, prices, nutrition_targets, max_quantity_per_food,
            time_limit, macro_args, prob, expired, status, varValue, ret>>

ConcInit ==
    /\ pc = "idle"
    /\ entry = "none"
    /\ foods = << >>
    /\ prices = << >>
    /\ nutrition_targets = << >>
    /\ max_quantity_per_food = 0
    /\ time_limit = 0
    /\ macro_args = NoMacroArgs
    /\ prob = NoProblem
    /\ expired = FALSE
    /\ status = "Not Solved"
    /\ varValue = << >>
    /\ ret = Pending
    /\ optimizers = Constructed
    /\ calls = NoCalls
    /\ solver \in Solvers
    /\ usda = NoRequest
    /\ cache = NewCache
    /\ kroger = NoKroger
    /\ session = NewSession
    /\ saved_plans = NoPlans

\* caller c enters optimize and runs up to prob.solve() (lines 84-135)
CallOptimize(c) ==
    /\ calls[c].pc = "idle"
    /\ \E i \in Instances, fs \in ConcCatalogs, ps \in ConcPriceLists,
          ts \in ConcTargetMaps :
          calls' = MarkOverlapped(
                      WriteLocals(calls, c, StartCall(i, fs, ps, ts, MaxQty)))
    /\ UNCHANGED <<single, optimizers, solver, ingestion, dashboard>>

\* prob.solve() of caller c returns and its optimize runs to the end
CallSolveReturns(c) ==
    /\ calls[c].pc = "solve"
    /\ calls' = WriteLocals(calls, c, FinishCall(calls[c], solver))
    /\ UNCHANGED <<single, optimizers, solver, ingestion, dashboard>>

\* caller c is done with the outcome
CallRelease(c) ==
    /\ calls[c].pc = "done"
    /\ calls' = WriteLocals(calls, c, IdleCall)
    /\ UNCHANGED <<single, optimizers, solver, ingestion, dashboard>>

ConcNext ==
    \E c \in Callers :
        \/ CallOptimize(c)
        \/ CallSolveReturns(c)
        \/ CallRelease(c)

SpecConc == ConcInit /\ [][ConcNext]_vars

(***************************************************************************)
(* What the claims speak of, stated over the call's inputs and outcome     *)
(* rather than over the LP that optimize built.                            *)
(***************************************************************************)
Returned == pc = "done"
HasResult == pc = "done" /\ ret.kind = "result"

\* every assignment of a quantity in [0, max_quantity_per_food] to each food
Quantities == [DOMAIN foods -> 0..max_quantity_per_food]

AmountOf(k, n) == OrZero(get_nutrient(foods[k], n))

NutrientTotal(q, n) ==
    SumOver(DOMAIN foods, [k \in DOMAIN foods |-> AmountOf(k, n) * q[k]])

WithinTarget(total, target) ==
    /\ ~IsNone(target[1]) => total >= Val(target[1])
    /\ ~IsNone(target[2]) => total <= Val(target[2])

MeetsTargets(q) ==
    \A n \in DOMAIN nutrition_targets :
        WithinTarget(NutrientTotal(q, n), nutrition_targets[n])

CostOf(q) ==
    SumOver(DOMAIN foods, [k \in DOMAIN foods |-> PricesGet(prices, k) * q[k]])

SomeFeasible == \E q \in Quantities : MeetsTargets(q)

MinAboveMax(target) ==
    ~IsNone(target[1]) /\ ~IsNone(target[2]) /\ Val(target[1]) > Val(target[2])

SomeMinAboveMax ==
    \E n \in DOMAIN nutrition_targets : MinAboveMax(nutrition_targets[n])

\* the most of nutrient n the catalog delivers with every food at the cap
MaxDeliverable(n) ==
    NutrientTotal([k \in DOMAIN foods |-> max_quantity_per_food], n)

(***************************************************************************)
(* C1: whenever the solver status is not Optimal, optimize returns None    *)
(* and does not raise; in particular it returns None when no assignment of *)
(* quantities in [0, max_quantity_per_food] meets every nutrient           *)
(* constraint.                                                             *)
(***************************************************************************)
C1_NoneWhenNotOptimal ==
    Returned =>
        /\ status # "Optimal" => ret.kind = "None"
        /\ ~SomeFeasible => ret.kind = "None"

\* a required minimum above what the catalog delivers at the cap
C1_Witness ==
    /\ Returned
    /\ DOMAIN foods # {}
    /\ ~SomeMinAboveMax
    /\ \E n \in DOMAIN nutrition_targets :
          /\ ~IsNone(nutrition_targets[n][1])
          /\ MaxDeliverable(n) > 0
          /\ MaxDeliverable(n) < Val(nutrition_targets[n][1])
    /\ status # "Optimal"
    /\ ret.kind = "None"

(***************************************************************************)
(* C2: for every returned result and every nutrient of the echoed targets, *)
(* the achieved total reported in total_nutrients (0 when the nutrient has *)
(* no entry) lies within [min, max] for every present bound.               *)
(***************************************************************************)
Achieved(n) ==
    IF n \in DOMAIN ret.total_nutrients THEN ret.total_nutrients[n] ELSE 0

C2_AchievedWithinTargets ==
    HasResult =>
        \A n \in DOMAIN ret.targets : WithinTarget(Achieved(n), ret.targets[n])

(***************************************************************************)
(* C3: the total_cost of a returned result is the minimum cost over the    *)
(* feasible assignments: some feasible assignment costs total_cost and no  *)
(* feasible assignment costs less.                                         *)
(***************************************************************************)
C3_TotalCostIsMinimum ==
    HasResult =>
        /\ \E q \in Quantities : MeetsTargets(q) /\ CostOf(q) = ret.total_cost
        /\ \A q \in Quantities : MeetsTargets(q) => CostOf(q) >= ret.total_cost

\* the solver had dearer feasible assignments to choose from
C3_Witness ==
    /\ HasResult
    /\ ret.total_cost > 0
    /\ ret.num_foods > 0
    /\ \E q \in Quantities : MeetsTargets(q) /\ CostOf(q) > ret.total_cost

(***************************************************************************)
(* C4: in every returned result, total_cost equals the sum of the prorated *)
(* price fields of the foods in selected_foods.                            *)
(***************************************************************************)
SelectedPriceSum ==
    LET sel == ret.selected_foods
    IN  SumOver(DOMAIN sel, [k \in DOMAIN sel |-> sel[k].price])

C4_TotalCostIsSelectedPriceSum ==
    HasResult => ret.total_cost = SelectedPriceSum

(***************************************************************************)
(* C5: every quantity_grams of a returned result is >= 0 and <= the        *)
(* max_quantity_per_food passed to the call.                               *)
(***************************************************************************)
C5_QuantitiesWithinCap ==
    HasResult =>
        \A k \in DOMAIN ret.selected_foods :
            /\ ret.selected_foods[k].quantity_grams >= 0
            /\ ret.selected_foods[k].quantity_grams <= max_quantity_per_food

\* a food solved at exactly the cap
C5_Witness ==
    /\ HasResult
    /\ \E k \in DOMAIN ret.selected_foods :
          ret.selected_foods[k].quantity_grams = max_quantity_per_food

(***************************************************************************)
(* C6: for well-formed inputs (non-empty catalog, non-negative prices,     *)
(* min <= max) with a feasible assignment, optimize returns a result, and  *)
(* its total_cost is >= 0.                                                 *)
(***************************************************************************)
WellFormed ==
    /\ DOMAIN foods # {}
    /\ \A k \in DOMAIN prices : prices[k] >= 0
    /\ ~SomeMinAboveMax

C6_FeasibleGivesResult ==
    (Returned /\ WellFormed /\ SomeFeasible) =>
        (ret.kind = "result" /\ ret.total_cost >= 0)

(***************************************************************************)
(* C7: time_limit bounds the solve: when time_limit expires before the     *)
(* solver has reached optimality, optimize returns None.                   *)
(***************************************************************************)
C7_TimeLimitBoundsSolve ==
    (Returned /\ expired) => ret.kind = "None"

(***************************************************************************)
(* C8: optimize with an empty foods mapping fails with an input-validation *)
(* error, and the solver is not called.                                    *)
(***************************************************************************)
C8_EmptyFoodsRejected ==
    (pc # "idle" /\ DOMAIN foods = {}) =>
        /\ pc # "solve"
        /\ ret.kind = "raise"

(***************************************************************************)
(* C9: optimize with a nutrient target whose min is greater than its max   *)
(* raises an input-validation error before any solve attempt.              *)
(***************************************************************************)
C9_MinAboveMaxRejected ==
    (pc # "idle" /\ SomeMinAboveMax) =>
        /\ pc # "solve"
        /\ ret.kind = "raise"

(***************************************************************************)
(* C10: the targets field of a result returned by optimize_for_macros has  *)
(* exactly the four entries Energy, Protein, Carbohydrate by difference    *)
(* and Total lipid (fat), each the pair (target * (1 - tolerance),         *)
(* target * (1 + tolerance)) of its point target.                          *)
(***************************************************************************)
Derived(target) ==
    <<Some(target * TolDen - target * macro_args.tolerance),
      Some(target * TolDen + target * macro_args.tolerance)>>

C10_MacroTargetsEchoed ==
    (HasResult /\ entry = "optimize_for_macros") =>
        /\ DOMAIN ret.targets =
              {"Energy", "Protein", "Carbohydrate, by difference", "Total lipid (fat)"}
        /\ ret.targets["Energy"] = Derived(macro_args.target_calories)
        /\ ret.targets["Protein"] = Derived(macro_args.target_protein_g)
        /\ ret.targets["Carbohydrate, by difference"] = Derived(macro_args.target_carbs_g)
        /\ ret.targets["Total lipid (fat)"] = Derived(macro_args.target_fat_g)

\* a proper tolerance and distinct point targets, with a food bought
C10_Witness ==
    /\ HasResult
    /\ entry = "optimize_for_macros"
    /\ macro_args.tolerance = 1
    /\ macro_args.target_protein_g > 0
    /\ macro_args.target_carbs_g = 0
    /\ ret.num_foods > 0

(***************************************************************************)
(* C11: optimize_for_macros hands the derived bounds to optimize as they   *)
(* are: with tolerance >= 1 the derived minimum (<= 0) is the bound of the *)
(* Min constraint, unclamped, and with tolerance = 0 min equals max.       *)
(***************************************************************************)
PointTarget(n) ==
    CASE n = "Energy" -> macro_args.target_calories
      [] n = "Protein" -> macro_args.target_protein_g
      [] n = "Carbohydrate, by difference" -> macro_args.target_carbs_g
      [] n = "Total lipid (fat)" -> macro_args.target_fat_g

MacroNames ==
    {"Energy", "Protein", "Carbohydrate, by difference", "Total lipid (fat)"}

InMacroCall == pc # "idle" /\ entry = "optimize_for_macros"

C11_MacroBoundsNotClamped ==
    InMacroCall =>
        \A n \in MacroNames :
            LET lo == Val(nutrition_targets[n][1])
                hi == Val(nutrition_targets[n][2])
                t == macro_args.tolerance
            IN  /\ lo = PointTarget(n) * TolDen - PointTarget(n) * t
                /\ t >= TolDen => lo <= 0
                /\ t = 0 => lo = hi
                /\ \E c \in prob.constraints :
                      c.name = <<"Min", n>> /\ c.sense = ">=" /\ c.rhs = lo

\* a tolerance above 1 with a positive point target: a negative minimum
C11_Witness ==
    /\ InMacroCall
    /\ macro_args.tolerance > TolDen
    /\ macro_args.target_protein_g > 0
    /\ Val(nutrition_targets["Protein"][1]) < 0
    /\ ret.kind = "result"

(***************************************************************************)
(* C12: the targets field of every returned result is the nutrition_targets *)
(* map passed to optimize: the same keys and the same (min, max) pairs.    *)
(***************************************************************************)
C12_TargetsEchoedUnchanged ==
    HasResult =>
        /\ DOMAIN ret.targets = DOMAIN nutrition_targets
        /\ \A n \in DOMAIN nutrition_targets :
              ret.targets[n] = nutrition_targets[n]

\* a target with an absent bound and a nutrient no selected food carries
C12_Witness ==
    /\ HasResult
    /\ entry = "optimize"
    /\ \E n \in DOMAIN nutrition_targets : IsNone(nutrition_targets[n][1])
    /\ \E n \in DOMAIN nutrition_targets : n \notin DOMAIN ret.total_nutrients
    /\ ret.num_foods > 0

(***************************************************************************)
(* C13: a food of foods with no entry in prices still has its decision     *)
(* variable, has no term in the cost objective, and when it is selected    *)
(* its price field is 0.                                                   *)
(***************************************************************************)
Unpriced == (DOMAIN foods) \ (DOMAIN prices)

C13_UnpricedFoodIsFree ==
    pc # "idle" =>
        \A k \in Unpriced :
            /\ k \in DOMAIN prob.vars
            /\ k \notin DOMAIN prob.objective
            /\ HasResult =>
                  /\ ret.total_cost = CostOf([f \in DOMAIN foods |->
                        IF f = k THEN 0 ELSE Val(varValue[f])])
                  /\ k \in DOMAIN ret.selected_foods =>
                        ret.selected_foods[k].price = 0

\* an unpriced food bought because a minimum needs it
C13_Witness ==
    /\ HasResult
    /\ \E k \in Unpriced :
          /\ k \in DOMAIN ret.selected_foods
          /\ ret.selected_foods[k].price = 0
          /\ \E n \in DOMAIN nutrition_targets :
                /\ ~IsNone(nutrition_targets[n][1])
                /\ AmountOf(k, n) > 0
                /\ NutrientTotal([f \in DOMAIN foods |->
                       IF f = k THEN 0 ELSE max_quantity_per_food], n)
                       < Val(nutrition_targets[n][1])

(***************************************************************************)
(* C17 (as claimed): total_nutrients has an entry for exactly the          *)
(* nutrients of nutrition_targets, each the sum over the selected foods of *)
(* amount per 100 g times quantity.                                        *)
(***************************************************************************)
SelectedSum(n) ==
    LET sel == ret.selected_foods
    IN  SumOver(DOMAIN sel,
                [k \in DOMAIN sel |-> AmountOf(k, n) * sel[k].quantity_grams])

C17_TotalsForExactlyTargets ==
    HasResult =>
        /\ DOMAIN ret.total_nutrients = DOMAIN nutrition_targets
        /\ \A n \in DOMAIN nutrition_targets :
              ret.total_nutrients[n] = SelectedSum(n)

(***************************************************************************)
(* C17 (amended): total_nutrients has an entry for exactly the target      *)
(* nutrients that some selected food carries with a non-zero amount; for   *)
(* every target nutrient the entry, read as 0 when there is none, is the   *)
(* sum over the selected foods of amount per 100 g times quantity.         *)
(***************************************************************************)
CarriedBySelected(n) ==
    \E k \in DOMAIN ret.selected_foods : AmountOf(k, n) # 0

C17_TotalsForCarriedTargets ==
    HasResult =>
        /\ DOMAIN ret.total_nutrients =
              {n \in DOMAIN nutrition_targets : CarriedBySelected(n)}
        /\ \A n \in DOMAIN nutrition_targets : Achieved(n) = SelectedSum(n)

\* one target with a total, one without, and a food left out of the total
C17_Witness ==
    /\ HasResult
    /\ \E n \in DOMAIN ret.total_nutrients :
          \E k \in (DOMAIN foods) \ (DOMAIN ret.selected_foods) :
              Val(varValue[k]) > 0 /\ AmountOf(k, n) > 0
    /\ \E m \in DOMAIN nutrition_targets : m \notin DOMAIN ret.total_nutrients

(***************************************************************************)
(* C18: selected_foods lists exactly the foods solved strictly above       *)
(* 0.1 g (one tenth of a gram is 1 on the grid), and num_foods is the      *)
(* number of its entries.                                                  *)
(***************************************************************************)
C18_SelectedAboveThreshold ==
    HasResult =>
        /\ DOMAIN ret.selected_foods =
              {k \in DOMAIN foods : Val(varValue[k]) > 1}
        /\ ret.num_foods = Cardinality(DOMAIN ret.selected_foods)

\* one food solved at exactly 0.1 g and left out, another listed
C18_Witness ==
    /\ HasResult
    /\ \E k \in DOMAIN foods :
          Val(varValue[k]) = 1 /\ k \notin DOMAIN ret.selected_foods
    /\ ret.num_foods = 1

(***************************************************************************)
(* C19 (as claimed): nutrient matching is case-sensitive: an entry of a    *)
(* food counts for target nutrient N, in the constraints and in the        *)
(* achieved total, only if its name is exactly N.                          *)
(***************************************************************************)
MinOf(S) == CHOOSE i \in S : \A j \in S : i <= j

ExactAmount(food, n) ==
    LET I == {i \in 1..Len(food) : food[i].name = n}
    IN  IF I = {} THEN 0 ELSE food[MinOf(I)].amount

FoldedAmount(food, n) ==
    LET I == {i \in 1..Len(food) : Lower(food[i].name) = Lower(n)}
    IN  IF I = {} THEN 0 ELSE food[MinOf(I)].amount

C19_CaseSensitiveLookup ==
    /\ pc # "idle" =>
          \A c \in prob.constraints : \A k \in DOMAIN foods :
              c.coef[k] = ExactAmount(foods[k], c.name[2])
    /\ HasResult =>
          \A n \in DOMAIN nutrition_targets :
              Achieved(n) =
                SumOver(DOMAIN ret.selected_foods,
                        [k \in DOMAIN ret.selected_foods |->
                            ExactAmount(foods[k], n)
                              * ret.selected_foods[k].quantity_grams])

(***************************************************************************)
(* C19 (amended): nutrient matching ignores letter case: an entry of a     *)
(* food counts for target nutrient N, in the constraints and in the        *)
(* achieved total, when its lower-cased name equals the lower-cased N (the *)
(* first such entry of the food).                                          *)
(***************************************************************************)
C19_CaseInsensitiveLookup ==
    /\ pc # "idle" =>
          \A c \in prob.constraints : \A k \in DOMAIN foods :
              c.coef[k] = FoldedAmount(foods[k], c.name[2])
    /\ HasResult =>
          \A n \in DOMAIN nutrition_targets :
              Achieved(n) =
                SumOver(DOMAIN ret.selected_foods,
                        [k \in DOMAIN ret.selected_foods |->
                            FoldedAmount(foods[k], n)
                              * ret.selected_foods[k].quantity_grams])

\* a food whose entry is "protein" is bought to meet a "Protein" minimum
C19_Witness ==
    /\ HasResult
    /\ "Protein" \in DOMAIN nutrition_targets
    /\ ~IsNone(nutrition_targets["Protein"][1])
    /\ \E k \in DOMAIN ret.selected_foods :
          /\ \A i \in 1..Len(foods[k]) : foods[k][i].name # "Protein"
          /\ \E i \in 1..Len(foods[k]) : foods[k][i].name = "protein"
    /\ "Protein" \in DOMAIN ret.total_nutrients
    /\ ret.total_nutrients["Protein"] > 0

(***************************************************************************)
(* C20: a food that lacks a target nutrient adds 0 to that nutrient's      *)
(* constraints and achieved total, its absence raises no error, and the    *)
(* outcome is one the same catalog with that nutrient set explicitly to 0  *)
(* in that food has.                                                       *)
(***************************************************************************)
Lacks(k, n) ==
    \A i \in 1..Len(foods[k]) : Lower(foods[k][i].name) # Lower(n)

WithExplicitZero(k, n) ==
    [f \in DOMAIN foods |->
        IF f = k THEN Append(foods[f], NutrientInfo(n, 0)) ELSE foods[f]]

Summary(r) ==
    IF r.kind = "result"
    THEN [kind |-> r.kind, total_cost |-> r.total_cost,
          total_nutrients |-> r.total_nutrients,
          quantities |-> [k \in DOMAIN r.selected_foods |->
                             r.selected_foods[k].quantity_grams]]
    ELSE [kind |-> r.kind, total_cost |-> 0, total_nutrients |-> << >>,
          quantities |-> << >>]

OutcomesOf(fs, ps, ts, cap) ==
    LET p == BuildProblem(fs, ps, ts, cap)
    IN  {Summary(ExtractResult(fs, ps, ts, p, o.status, VarValues(p, o.x))) :
            o \in SolverOutcomes(p)}

C20_ContributesZero ==
    pc # "idle" =>
        \A k \in DOMAIN foods : \A n \in DOMAIN nutrition_targets :
            Lacks(k, n) =>
                /\ \A c \in prob.constraints : c.name[2] = n => c.coef[k] = 0
                /\ HasResult =>
                      Achieved(n) =
                        SumOver(DOMAIN ret.selected_foods \ {k},
                                [f \in DOMAIN ret.selected_foods \ {k} |->
                                    AmountOf(f, n)
                                      * ret.selected_foods[f].quantity_grams])

C20_SameAsExplicitZero ==
    Returned =>
        \A k \in DOMAIN foods : \A n \in DOMAIN nutrition_targets :
            Lacks(k, n) =>
                Summary(ret) \in OutcomesOf(WithExplicitZero(k, n), prices,
                                            nutrition_targets,
                                            max_quantity_per_food)

C20_NoErrorFromAbsence ==
    Returned =>
        ((\E k \in DOMAIN foods : \E n \in DOMAIN nutrition_targets : Lacks(k, n))
            => ret.kind # "raise")

C20_MissingNutrientIsZero ==
    /\ C20_ContributesZero
    /\ C20_NoErrorFromAbsence
    /\ C20_SameAsExplicitZero

(***************************************************************************)
(* C14: calls of optimize that run at the same time, on the same or on     *)
(* different instances, do not interfere: each call solves the problem     *)
(* built from its own arguments and returns what it returns when run       *)
(* alone, and no call changes what an instance holds.                      *)
(***************************************************************************)
AloneResult(r) ==
    LET p == BuildProblem(r.foods, r.prices, r.nutrition_targets,
                          r.max_quantity_per_food)
        o == SolveWith(p, solver)
    IN  ExtractResult(r.foods, r.prices, r.nutrition_targets, p, o.status,
                      VarValues(p, o.x))

C14_CallsDoNotInterfere ==
    /\ optimizers = Constructed
    /\ \A c \in Callers :
          /\ calls[c].pc # "idle" =>
                /\ calls[c].prob.name = optimizers[calls[c].self].problem_name
                /\ calls[c].prob.lp =
                      BuildProblem(calls[c].foods, calls[c].prices,
                                   calls[c].nutrition_targets,
                                   calls[c].max_quantity_per_food)
          /\ calls[c].pc = "done" => calls[c].ret = AloneResult(calls[c])

\* two calls on one instance were inside optimize together and came out
\* with different results
C14_Witness ==
    /\ \A c \in Callers : calls[c].pc = "done" /\ calls[c].overlapped
    /\ calls["s1"].self = calls["s2"].self
    /\ calls["s1"].ret.kind = "result"
    /\ calls["s2"].ret.kind = "result"
    /\ calls["s1"].ret.total_cost # calls["s2"].ret.total_cost

(***************************************************************************)
(* C15: two calls of optimize with identical foods, prices,                *)
(* nutrition_targets and cap end the same way, and when they return a      *)
(* result the two results have the same total_cost and the same achieved   *)
(* nutrient totals.                                                        *)
(***************************************************************************)
SameInputs(a, b) ==
    /\ a.foods = b.foods
    /\ a.prices = b.prices
    /\ a.nutrition_targets = b.nutrition_targets
    /\ a.max_quantity_per_food = b.max_quantity_per_food

BothDone == \A c \in Callers : calls[c].pc = "done"

MinNotAbove(a, b) == IsNone(a) \/ (~IsNone(b) /\ Val(a) <= Val(b))
MaxNotBelow(a, b) == IsNone(a) \/ (~IsNone(b) /\ Val(a) >= Val(b))

Widens(T2, T1) ==
    /\ DOMAIN T2 = DOMAIN T1
    /\ \A n \in DOMAIN T1 : /\ MinNotAbove(T2[n][1], T1[n][1])
                            /\ MaxNotBelow(T2[n][2], T1[n][2])

KeepsBounds(T2, T1) ==
    \A n \in DOMAIN T1 : /\ IsNone(T2[n][1]) = IsNone(T1[n][1])
                         /\ IsNone(T2[n][2]) = IsNone(T1[n][2])

Relaxed(narrow, wide) ==
    /\ calls[narrow].pc = "done"
    /\ calls[wide].pc = "done"
    /\ calls[narrow].foods = calls[wide].foods
    /\ calls[narrow].prices = calls[wide].prices
    /\ calls[narrow].max_quantity_per_food = calls[wide].max_quantity_per_food
    /\ Widens(calls[wide].nutrition_targets, calls[narrow].nutrition_targets)
    /\ calls[narrow].ret.kind = "result"

C16_WideningNeverCostsMore ==
    \A narrow \in Callers : \A wide \in Callers :
        Relaxed(narrow, wide) =>
            /\ calls[wide].ret.kind = "result"
            /\ calls[wide].ret.total_cost <= calls[narrow].ret.total_cost

\* what is left of C16 when no bound is dropped, or when the wider call
\* does return
C16_HoldsWhenBoundsKept ==
    \A narrow \in Callers : \A wide \in Callers :
        (Relaxed(narrow, wide)
           /\ (\/ KeepsBounds(calls[wide].nutrition_targets,
                              calls[narrow].nutrition_targets)
               \/ calls[wide].ret.kind # "raise")) =>
            /\ calls[wide].ret.kind = "result"
            /\ calls[wide].ret.total_cost <= calls[narrow].ret.total_cost

C16_StrictlyCheaper ==
    \E narrow \in Callers : \E wide \in Callers :
        /\ Relaxed(narrow, wide)
        /\ calls[wide].ret.kind = "result"
        /\ calls[wide].ret.total_cost < calls[narrow].ret.total_cost

(***************************************************************************)
(* C21: for each target nutrient optimize adds a lower-bound constraint    *)
(* only if min is present and an upper-bound constraint only if max is     *)
(* present, so a target (None, max) rejects no assignment for being too    *)
(* low and a target (min, None) rejects none for being too high.           *)
(***************************************************************************)
LowerBoundsOf(n) == {c \in prob.constraints : c.name[2] = n /\ c.sense = ">="}
UpperBoundsOf(n) == {c \in prob.constraints : c.name[2] = n /\ c.sense = "<="}

\* an assignment of the problem's variables, as quantities of every food
AsQuantities(x) == [k \in DOMAIN foods |-> IF k \in DOMAIN x THEN x[k] ELSE 0]

C21_BoundsOnlyWhenPresent ==
    pc # "idle" =>
        /\ \A n \in DOMAIN nutrition_targets :
              /\ (LowerBoundsOf(n) # {}) <=> ~IsNone(nutrition_targets[n][1])
              /\ (UpperBoundsOf(n) # {}) <=> ~IsNone(nutrition_targets[n][2])
              /\ \A c \in LowerBoundsOf(n) : c.rhs = Val(nutrition_targets[n][1])
              /\ \A c \in UpperBoundsOf(n) : c.rhs = Val(nutrition_targets[n][2])
        /\ \A x \in Assignments(prob) :
              (x \in FeasibleRegion(prob)) <=> MeetsTargets(AsQuantities(x))

\* a result whose total exceeds every bound of a (min, None) target while
\* another target has only a max
C21_Witness ==
    /\ HasResult
    /\ \E n \in DOMAIN nutrition_targets :
          /\ ~IsNone(nutrition_targets[n][1])
          /\ IsNone(nutrition_targets[n][2])
          /\ Achieved(n) > MaxTarget
    /\ \E m \in DOMAIN nutrition_targets :
          /\ IsNone(nutrition_targets[m][1])
          /\ ~IsNone(nutrition_targets[m][2])

(***************************************************************************)
(* C22: optimize has no side effects on its inputs or on the optimizer:    *)
(* no step of a call changes the foods, prices or nutrition_targets        *)
(* mappings it was given or a field of an optimizer, and a call returns    *)
(* what its own arguments give whatever calls came before it.              *)
(***************************************************************************)
InputsOf(r) == <<r.foods, r.prices, r.nutrition_targets, r.max_quantity_per_food>>

C22_NoSideEffects ==
    [][/\ optimizers' = optimizers
       /\ \A c \in Callers :
             /\ calls[c].pc = "solve" => InputsOf(calls'[c]) = InputsOf(calls[c])
             /\ (calls[c].pc = "solve" /\ calls'[c].pc = "done") =>
                   calls'[c].ret = AloneResult(calls'[c])]_vars

\* a call that came after a finished call on the same instance, with other
\* inputs, one of them a price list that lacks a food
C22_Witness ==
    /\ BothDone
    /\ \A c \in Callers : ~calls[c].overlapped
    /\ calls["s1"].self = calls["s2"].self
    /\ InputsOf(calls["s1"]) # InputsOf(calls["s2"])
    /\ \E c \in Callers :
          /\ calls[c].ret.kind = "result"
          /\ DOMAIN calls[c].prices # DOMAIN calls[c].foods
    /\ \E c \in Callers : calls[c].ret.kind = "None"


(***************************************************************************)
(* USDAClient._make_request_with_retry (usda_client.py, lines 242-285).    *)
(* One step is one pass of the for loop: the GET, and what the pass does   *)
(* with its outcome, the sleep included.  status_code values and the two   *)
(* exception classes are the outcomes of session.get.                      *)
(***************************************************************************)
DefaultMaxRetries == 3     \* max_retries: int = 3

RECURSIVE Pow2(_)
Pow2(n) == IF n = 0 THEN 1 ELSE 2 * Pow2(n - 1)

RateLimited == "429"
Exceptions == {"Timeout", "RequestException"}
GetOutcomes == {"200", "404", "500", RateLimited} \cup Exceptions

Endpoints == {<<"/foods/search">>, <<"/food", 1>>, <<"/food", 2>>}

Response(code) == [kind |-> "response", status_code |-> code]
Raise(e) == [kind |-> "raise", error |-> e]

\* the caller enters _make_request_with_retry
UsdaMakeRequest ==
    /\ usda.pc = "idle"
    /\ \E u \in Endpoints :
          usda' = [NoRequest EXCEPT !.pc = "loop", !.url = u,
                                    !.max_retries = DefaultMaxRetries]
    /\ UNCHANGED <<optimization, cache, kroger, dashboard>>

\* one pass of the loop with outcome o of session.get (lines 259-285)
UsdaPass(r, o) ==
    LET last == r.attempt = r.max_retries - 1
        seen == [r EXCEPT !.outcomes = Append(@, o), !.attempt = @ + 1]
    IN  IF o = RateLimited
        THEN LET w == [seen EXCEPT !.slept = Append(@, Pow2(r.attempt))]
             IN  IF last
                 THEN [w EXCEPT !.pc = "done", !.ret = Raise("Exception")]
                 ELSE w
        ELSE IF o \in Exceptions
        THEN IF ~last
             THEN [seen EXCEPT !.slept = Append(@, Pow2(r.attempt))]
             ELSE [seen EXCEPT !.pc = "done", !.ret = Raise(o)]
        ELSE [seen EXCEPT !.pc = "done", !.ret = Response(o)]

UsdaAttempt ==
    /\ usda.pc = "loop"
    /\ \E o \in GetOutcomes : usda' = UsdaPass(usda, o)
    /\ UNCHANGED <<optimization, cache, kroger, dashboard>>

\* the caller has the response or the exception
UsdaRelease ==
    /\ usda.pc = "done"
    /\ usda' = NoRequest
    /\ UNCHANGED <<optimization, cache, kroger, dashboard>>

UsdaNext ==
    \/ UsdaMakeRequest
    \/ UsdaAttempt
    \/ UsdaRelease

SpecUsda == Init /\ [][UsdaNext]_vars

(***************************************************************************)
(* C23: with the default max_retries, whenever every attempt fails (429,   *)
(* timeout or request error) _make_request_with_retry makes at most 3      *)
(* requests, sleeps 1 s, 2 s and 4 s after the first, second and third     *)
(* failed attempt, and then raises.                                        *)
(***************************************************************************)
Failures == {RateLimited} \cup Exceptions

AllFailed ==
    /\ usda.pc = "done"
    /\ \A i \in 1..Len(usda.outcomes) : usda.outcomes[i] \in Failures

C23_Waits124ThenRaises ==
    AllFailed =>
        /\ Len(usda.outcomes) <= 3
        /\ usda.slept = <<1, 2, 4>>
        /\ usda.ret.kind = "raise"

\* what holds of every all-failed request: the waits double from 1 s, one
\* after each failed attempt except a last attempt that ended in an exception
C23_WaitsDouble ==
    AllFailed =>
        /\ Len(usda.outcomes) = DefaultMaxRetries
        /\ usda.ret.kind = "raise"
        /\ \A i \in 1..Len(usda.slept) : usda.slept[i] = Pow2(i - 1)
        /\ Len(usda.slept) =
              IF usda.outcomes[DefaultMaxRetries] = RateLimited
              THEN DefaultMaxRetries ELSE DefaultMaxRetries - 1


(***************************************************************************)
(* KrogerClient (kroger_client.py): the OAuth2 token and the request loop. *)
(* Time is counted in units of 300 s, the margin _refresh_token keeps      *)
(* before the token's real expiry; a token is named by the count of tokens *)
(* issued so far.  The waits of the retry loop are short against that unit *)
(* and the clock may advance between any two steps.                        *)
(***************************************************************************)
MaxTime == 2          \* the clock runs from 0 to MaxTime
MaxTokens == 3        \* the auth server issues at most MaxTokens tokens
MaxExpiresIn == 2     \* largest expires_in of a token

EarlyMargin == 1      \* `expires_in - 300`, in units of 300 s

ExpiresIns == {1, MaxExpiresIn}

\* what requests.post to AUTH_URL can end with (lines 75-105)
AuthOutcomes(k) ==
    {[kind |-> "denied", expires_in |-> 0],
     [kind |-> "Timeout", expires_in |-> 0],
     [kind |-> "RequestException", expires_in |-> 0]}
    \cup (IF k.issued < MaxTokens
          THEN {[kind |-> "ok", expires_in |-> x] : x \in ExpiresIns}
          ELSE {})

\* _refresh_token with a 200 answer a (lines 87-99)
StoreToken(k, a) ==
    [k EXCEPT !.issued = @ + 1,
              !.access_token = Some(k.issued + 1),
              !.token_expires_at = Some(k.now + a.expires_in - EarlyMargin)]

\* faulty variant: the token is refreshed only once the deadline is behind
NeedsRefresh_Late(k) ==
    IsNone(k.token_expires_at) \/ k.now > Val(k.token_expires_at)

\* the test of _ensure_valid_token (line 110)
NeedsRefresh(k) ==
    IsNone(k.token_expires_at) \/ k.now >= Val(k.token_expires_at)

\* __init__ (lines 37-53): the client exists only if the first refresh succeeds
KrogerConstruct ==
    /\ ~kroger.constructed
    /\ \E a \in AuthOutcomes(kroger) :
          kroger' = IF a.kind = "ok"
                    THEN [StoreToken(kroger, a) EXCEPT !.constructed = TRUE]
                    ELSE kroger
    /\ UNCHANGED <<optimization, usda, cache, dashboard>>

KrogerTick ==
    /\ kroger.now < MaxTime
    /\ kroger' = [kroger EXCEPT !.now = @ + 1]
    /\ UNCHANGED <<optimization, usda, cache, dashboard>>

KrogerOps == {"search_products", "get_product_by_id"}

\* the locals of a product call when it starts
StartRequest(k, op) ==
    [k EXCEPT !.pc = "loop", !.op = op, !.started = k.now,
              !.token_at_start = k.access_token,
              !.deadline_at_start = k.token_expires_at,
              !.refreshed_first = FALSE,
              !.attempt = 0, !.outcomes = << >>, !.sent = << >>,
              !.slept = << >>, !.refreshes = 0, !.ret = Pending]

\* search_products / get_product_by_id up to the first GET: the call starts
\* with _ensure_valid_token, outside the try (lines 138, 189)
KrogerCall ==
    /\ kroger.constructed
    /\ kroger.pc = "idle"
    /\ \E op \in KrogerOps :
          LET k == StartRequest(kroger, op)
          IN  IF NeedsRefresh(kroger)
              THEN \E a \in AuthOutcomes(kroger) :
                      kroger' =
                        IF a.kind = "ok"
                        THEN [StoreToken(k, a) EXCEPT !.refreshed_first = TRUE]
                        ELSE [k EXCEPT !.refreshed_first = TRUE,
                                       !.pc = "done",
                                       !.ret = Raise(a.kind)]
              ELSE kroger' = k
    /\ UNCHANGED <<optimization, usda, cache, dashboard>>

Unauthorized == "401"
KrogerGetOutcomes == {"200", "404", RateLimited, Unauthorized} \cup Exceptions

\* time.sleep(2 ** attempt), noted with the pass that slept
Wait(attempt) == [pass |-> attempt, secs |-> Pow2(attempt)]

\* the except clauses of the loop (lines 303-315), for exception e
KrogerExcept(k, e) ==
    IF k.attempt < DefaultMaxRetries - 1
    THEN [k EXCEPT !.slept = Append(@, Wait(k.attempt)), !.attempt = @ + 1]
    ELSE [k EXCEPT !.pc = "done", !.ret = Raise(e)]

\* `continue`: the next pass, or the raise after the loop (line 317)
KrogerContinue(k) ==
    IF k.attempt < DefaultMaxRetries - 1
    THEN [k EXCEPT !.attempt = @ + 1]
    ELSE [k EXCEPT !.attempt = @ + 1, !.pc = "done", !.ret = Raise("Exception")]

\* faulty variant: the last pass hands a 401 back to the caller
KrogerPass_Returns401(k, o, a) ==
    LET seen == [k EXCEPT !.outcomes = Append(@, o),
                          !.sent = Append(@, [token |-> k.access_token,
                                              at |-> k.now])]
    IN  IF o = RateLimited
        THEN KrogerContinue([seen EXCEPT !.slept = Append(@, Wait(k.attempt))])
        ELSE IF o = Unauthorized /\ k.attempt = DefaultMaxRetries - 1
        THEN [seen EXCEPT !.pc = "done", !.ret = Response(o)]
        ELSE IF o = Unauthorized
        THEN LET r == [seen EXCEPT !.refreshes = @ + 1]
             IN  IF a.kind = "ok" THEN KrogerContinue(StoreToken(r, a))
                 ELSE IF a.kind = "denied"
                 THEN [r EXCEPT !.pc = "done", !.ret = Raise("Exception")]
                 ELSE KrogerExcept(r, a.kind)
        ELSE IF o \in Exceptions
        THEN KrogerExcept(seen, o)
        ELSE [seen EXCEPT !.pc = "done", !.ret = Response(o)]

\* one pass of the loop of _make_request_with_retry (lines 284-317): the GET
\* ends with o; a is how the token request of a 401 ends
KrogerPass(k, o, a) ==
    LET seen == [k EXCEPT !.outcomes = Append(@, o),
                          !.sent = Append(@, [token |-> k.access_token,
                                              at |-> k.now])]
    IN  IF o = RateLimited
        THEN KrogerContinue([seen EXCEPT !.slept = Append(@, Wait(k.attempt))])
        ELSE IF o = Unauthorized
        THEN LET r == [seen EXCEPT !.refreshes = @ + 1]
             IN  IF a.kind = "ok" THEN KrogerContinue(StoreToken(r, a))
                 ELSE IF a.kind = "denied"
                 THEN [r EXCEPT !.pc = "done", !.ret = Raise("Exception")]
                 ELSE KrogerExcept(r, a.kind)
        ELSE IF o \in Exceptions
        THEN KrogerExcept(seen, o)
        ELSE [seen EXCEPT !.pc = "done", !.ret = Response(o)]

KrogerAttempt ==
    /\ kroger.pc = "loop"
    /\ \E o \in KrogerGetOutcomes :
          IF o = Unauthorized
          THEN \E a \in AuthOutcomes(kroger) : kroger' = KrogerPass(kroger, o, a)
          ELSE kroger' = KrogerPass(kroger, o, [kind |-> "none", expires_in |-> 0])
    /\ UNCHANGED <<optimization, usda, cache, dashboard>>

\* the product call is over; the token fields stay with the client
KrogerRelease ==
    /\ kroger.pc = "done"
    /\ kroger' = [kroger EXCEPT !.pc = "idle"]
    /\ UNCHANGED <<optimization, usda, cache, dashboard>>

KrogerNext ==
    \/ KrogerConstruct
    \/ KrogerTick
    \/ KrogerCall
    \/ KrogerAttempt
    \/ KrogerRelease

SpecKroger == Init /\ [][KrogerNext]_vars


(***************************************************************************)
(* C24: search_products and get_product_by_id check the token before every *)
(* product request: they call _refresh_token first exactly when no expiry  *)
(* is recorded or the time is at or past _token_expires_at, so no product  *)
(* request carries a token that was past that deadline when the call       *)
(* started.                                                                *)
(***************************************************************************)
PastDeadlineAtStart ==
    \/ IsNone(kroger.deadline_at_start)
    \/ kroger.started >= Val(kroger.deadline_at_start)

C24_TokenCheckedBeforeRequest ==
    kroger.pc # "idle" =>
        /\ kroger.refreshed_first <=> PastDeadlineAtStart
        /\ \A i \in 1..Len(kroger.sent) :
              kroger.sent[i].token = kroger.token_at_start => ~PastDeadlineAtStart

\* a call that started exactly at the deadline, refreshed, and was answered
C24_Witness ==
    /\ kroger.pc = "done"
    /\ kroger.ret = Response("200")
    /\ ~IsNone(kroger.deadline_at_start)
    /\ kroger.started = Val(kroger.deadline_at_start)
    /\ kroger.refreshed_first
    /\ Len(kroger.sent) = 1
    /\ kroger.sent[1].token # kroger.token_at_start

(***************************************************************************)
(* C25: KrogerClient._make_request_with_retry never returns a 401 or 429   *)
(* response: each 401 triggers exactly one _refresh_token call and each    *)
(* 429 a backoff sleep, each uses up one of the max_retries attempts, and  *)
(* when the attempts are used up, also when the last one was a 401 that    *)
(* was just refreshed, it raises and sends no further request.             *)
(***************************************************************************)
Count(seq, v) == Cardinality({i \in 1..Len(seq) : seq[i] = v})

C25_Never401Or429Returned ==
    kroger.pc \in {"loop", "done"} =>
        /\ kroger.ret.kind = "response" =>
              kroger.ret.status_code \notin {"401", "429"}
        /\ kroger.refreshes = Count(kroger.outcomes, "401")
        /\ \A i \in 1..Len(kroger.outcomes) :
              kroger.outcomes[i] = "429" =>
                 \E j \in 1..Len(kroger.slept) :
                    kroger.slept[j] = [pass |-> i - 1, secs |-> Pow2(i - 1)]
        /\ Len(kroger.sent) = Len(kroger.outcomes)
        /\ Len(kroger.outcomes) <= 3
        /\ kroger.pc = "loop" => Len(kroger.outcomes) < 3
        /\ (/\ kroger.pc = "done"
            /\ Len(kroger.outcomes) = 3
            /\ kroger.outcomes[3] \in {"401", "429"}) => kroger.ret.kind = "raise"

\* a 429 and two 401s, the last one refreshed, and then the raise
C25_Witness ==
    /\ kroger.pc = "done"
    /\ kroger.outcomes = <<"429", "401", "401">>
    /\ kroger.refreshes = 2
    /\ kroger.access_token # kroger.sent[3].token
    /\ kroger.ret = Raise("Exception")


(***************************************************************************)
(* KrogerClient._parse_product (kroger_client.py, lines 222-270).  A raw   *)
(* record is a dict: a key that is absent is None here, a key that is      *)
(* present is Some(value).                                                 *)
(***************************************************************************)
MaxAisles == 2        \* most aisleLocations entries of a raw record

Get(d, key, default) == IF IsNone(d[key]) THEN default ELSE Val(d[key])

SeqsUpTo(S, n) == UNION {[1..m -> S] : m \in 0..n}

RawAisles ==
    {[description |-> x] : x \in {None, Some(""), Some("Aisle 5"), Some("Dairy")}}

RawItems ==
    {[price |-> None, size |-> None],
     [price |-> Some([regular |-> Some(3), promo |-> None]), size |-> Some("1 gal")],
     [price |-> Some([regular |-> Some(3), promo |-> Some(0)]), size |-> None],
     [price |-> Some([regular |-> Some(3), promo |-> Some(2)]), size |-> None]}

RawProducts ==
    [productId : {Some("0001")},
     upc : {Some("0001")},
     description : {None, Some("Whole Milk")},
     brand : {None, Some("Kroger")},
     items : {None, Some(<< >>)} \cup {Some(<<i>>) : i \in RawItems},
     aisleLocations : {None} \cup {Some(a) : a \in SeqsUpTo(RawAisles, MaxAisles)}]

\* the loop over aisleLocations (lines 255-260); it assigns the local
\* `description`, the same name that holds the product's description
RECURSIVE AisleLoop(_, _, _, _)
AisleLoop(aisles, i, description, aisle_locations) ==
    IF i > Len(aisles)
    THEN [description |-> description, aisle_locations |-> aisle_locations]
    ELSE LET d == Get(aisles[i], "description", "")
         IN  AisleLoop(aisles, i + 1, d,
                       IF d # "" THEN Append(aisle_locations, d)
                       ELSE aisle_locations)

parse_product(raw_data) ==
    LET items == Get(raw_data, "items", << >>)
        item == items[1]
        price_data == Get(item, "price", [regular |-> None, promo |-> None])
        regular_price == Get(price_data, "regular", 0)
        promo_price == Get(price_data, "promo", 0)
        after == AisleLoop(Get(raw_data, "aisleLocations", << >>), 1,
                           Get(raw_data, "description", "Unknown"), << >>)
    IN  [product_id |-> Get(raw_data, "productId", ""),
         upc |-> Get(raw_data, "upc", ""),
         description |-> after.description,
         brand |-> Get(raw_data, "brand", ""),
         price |-> IF items = << >> THEN 0
                   ELSE IF promo_price > 0 THEN promo_price ELSE regular_price,
         size |-> IF items = << >> THEN None ELSE item.size,
         aisle_locations |-> after.aisle_locations]

\* _parse_product is applied to a raw record of a response
KrogerParse ==
    /\ \E raw_data \in RawProducts :
          kroger' = [kroger EXCEPT !.raw = Some(raw_data),
                                   !.product = Some(parse_product(raw_data))]
    /\ UNCHANGED <<optimization, usda, cache, dashboard>>

KrogerParseNext == KrogerParse

SpecKrogerParse == Init /\ [][KrogerParseNext]_vars

(***************************************************************************)
(* C26: _parse_product returns a KrogerProduct whose description is the    *)
(* raw record's "description" field, or "Unknown" when absent, whatever    *)
(* aisleLocations entries the raw record carries.                          *)
(***************************************************************************)
Parsed == ~IsNone(kroger.raw)

C26_DescriptionIsProductDescription ==
    Parsed =>
        Val(kroger.product).description =
            IF IsNone(Val(kroger.raw).description) THEN "Unknown"
            ELSE Val(Val(kroger.raw).description)

\* what is left of C26 for a raw record without aisleLocations entries
C26_HoldsWithoutAisles ==
    (Parsed /\ Get(Val(kroger.raw), "aisleLocations", << >>) = << >>) =>
        Val(kroger.product).description =
            IF IsNone(Val(kroger.raw).description) THEN "Unknown"
            ELSE Val(Val(kroger.raw).description)


(***************************************************************************)
(* NutritionCache (cache.py) and USDAClient.get_food_by_id, which reads    *)
(* through it (usda_client.py, lines 140-188).  usda_foods has fdc_id as   *)
(* its primary key; nutrients are kept as JSON text, written by json.dumps *)
(* of a list of objects and read back by json.loads.                       *)
(***************************************************************************)
MaxFdcId == 2         \* fdc_ids run from 1 to MaxFdcId

FdcIds == 1..MaxFdcId

CachedNutrient(n, a, u) == [name |-> n, amount |-> a, unit |-> u]

NutrientLists ==
    {<< >>, <<CachedNutrient("Protein", 3, "g"), CachedNutrient("Energy", 61, "kcal")>>}

USDAFoods ==
    {[fdc_id |-> i,
      description |-> IF n = << >> THEN "Milk" ELSE "Milk, whole",
      food_category |-> IF n = << >> THEN None ELSE Some("Dairy"),
      nutrients |-> n, data_type |-> "sr_legacy_food",
      publication_date |-> IF n = << >> THEN None ELSE Some("2019-04-01")] :
        i \in FdcIds, n \in NutrientLists}

\* json.dumps([{"name": ..., "amount": ..., "unit": ...} for n in nutrients])
dumps(nutrients) ==
    [i \in 1..Len(nutrients) |->
        <<<<"name", nutrients[i].name>>, <<"amount", nutrients[i].amount>>,
          <<"unit", nutrients[i].unit>>>>]

Member(obj, key) == obj[CHOOSE i \in 1..Len(obj) : obj[i][1] = key][2]

\* [NutrientInfo(**n) for n in json.loads(nutrients_json)]
loads(nutrients_json) ==
    [i \in 1..Len(nutrients_json) |->
        CachedNutrient(Member(nutrients_json[i], "name"),
                       Member(nutrients_json[i], "amount"),
                       Member(nutrients_json[i], "unit"))]

\* the row store_food writes (lines 159-170)
RowOf(food) ==
    [description |-> food.description, food_category |-> food.food_category,
     data_type |-> food.data_type, nutrients_json |-> dumps(food.nutrients),
     publication_date |-> food.publication_date]

\* NutritionCache.get_food on table t (lines 116-141)
get_food(t, fdc_id) ==
    IF fdc_id \notin DOMAIN t THEN None
    ELSE Some([fdc_id |-> fdc_id,
               description |-> t[fdc_id].description,
               food_category |-> t[fdc_id].food_category,
               nutrients |-> loads(t[fdc_id].nutrients_json),
               data_type |-> t[fdc_id].data_type,
               publication_date |-> t[fdc_id].publication_date])

Put(f, k, v) == [x \in (DOMAIN f) \cup {k} |-> IF x = k THEN v ELSE f[x]]

\* faulty variant: INSERT OR IGNORE, the first row of an fdc_id stays
InsertOrReplace_Ignore(t, food) ==
    IF food.fdc_id \in DOMAIN t THEN t ELSE Put(t, food.fdc_id, RowOf(food))

\* INSERT OR REPLACE INTO usda_foods (lines 159-172)
InsertOrReplace(t, food) == Put(t, food.fdc_id, RowOf(food))

\* NutritionCache.store_food, with the history of what was stored
store_food(c, food) ==
    [c EXCEPT !.usda_foods = InsertOrReplace(c.usda_foods, food),
              !.written = Put(c.written, food.fdc_id, food),
              !.replaced = IF /\ food.fdc_id \in DOMAIN c.written
                              /\ c.written[food.fdc_id] # food
                           THEN @ \cup {food.fdc_id} ELSE @]


\* query.lower().strip() of get_search_results / store_search_results
Normalized(query) ==
    CASE query = "Milk" -> "milk"
      [] query = " milk " -> "milk"
      [] OTHER -> query

Queries == {"Milk", " milk "}
IdLists == {<<1, MaxFdcId>>}

\* the JSON body of GET /food/{fdc_id}: the server answers with the record
\* of the requested id, whose keys may be absent
RawNested ==
    [nutrient |-> Some([name |-> Some("Protein"), unitName |-> Some("g")]),
     nutrientName |-> None, unitName |-> None, amount |-> Some(3)]

RawFlat ==
    [nutrient |-> None, nutrientName |-> Some("Energy"),
     unitName |-> Some("kcal"), amount |-> None]

RawFoods(fdc_id) ==
    {[fdcId |-> Some(fdc_id), description |-> Some("Milk, whole"),
      dataType |-> Some("sr_legacy_food"), publicationDate |-> Some("2019-04-01"),
      foodCategory |-> Some([type |-> "dict", description |-> Some("Dairy")]),
      foodNutrients |-> Some(<<RawNested, RawFlat>>)],
     [fdcId |-> Some(fdc_id), description |-> Some("Milk, whole"),
      dataType |-> Some("sr_legacy_food"), publicationDate |-> None,
      foodCategory |-> Some([type |-> "str", value |-> "Dairy"]),
      foodNutrients |-> Some(<<RawFlat>>)],
     [fdcId |-> Some(fdc_id), description |-> None,
      dataType |-> None, publicationDate |-> None,
      foodCategory |-> None, foodNutrients |-> None],
     [fdcId |-> None, description |-> Some("Milk, whole"),
      dataType |-> Some("sr_legacy_food"), publicationDate |-> None,
      foodCategory |-> None, foodNutrients |-> None]}

\* one entry of foodNutrients (lines 202-221)
parse_nutrient(nutrient_data) ==
    LET nested == ~IsNone(nutrient_data.nutrient)
        name == IF nested THEN Get(Val(nutrient_data.nutrient), "name", "Unknown")
                ELSE Get(nutrient_data, "nutrientName", "Unknown")
        unit == IF nested THEN Get(Val(nutrient_data.nutrient), "unitName", "")
                ELSE Get(nutrient_data, "unitName", "")
    IN  CachedNutrient(name, Get(nutrient_data, "amount", 0), unit)

\* USDAClient._parse_food (lines 190-240); raw_data["fdcId"] raises KeyError
parse_food(raw_data) ==
    IF IsNone(raw_data.fdcId) THEN Raise("KeyError")
    ELSE LET food_nutrients == Get(raw_data, "foodNutrients", << >>)
             fc == raw_data.foodCategory
         IN  [kind |-> "food",
              food |->
                [fdc_id |-> Val(raw_data.fdcId),
                 description |-> Get(raw_data, "description", "Unknown"),
                 food_category |->
                    IF IsNone(fc) THEN None
                    ELSE IF Val(fc).type = "dict" THEN Val(fc).description
                    ELSE Some(Val(fc).value),
                 nutrients |-> [i \in 1..Len(food_nutrients) |->
                                   parse_nutrient(food_nutrients[i])],
                 data_type |-> Get(raw_data, "dataType", "unknown"),
                 publication_date |-> raw_data.publicationDate]]

\* every way _make_request_with_retry can end, from state r of the loop
RECURSIVE RetryRuns(_)
RetryRuns(r) ==
    IF r.pc = "done" THEN {r}
    ELSE UNION {RetryRuns(UsdaPass(r, o)) : o \in GetOutcomes}

FoodRequest(fdc_id) ==
    [NoRequest EXCEPT !.pc = "loop", !.url = <<"/food", fdc_id>>,
                      !.max_retries = DefaultMaxRetries]

\* what get_food_by_id sees of a run: the requests sent and how it ended
RunsSeen ==
    UNION {{[fdc_id |-> id, requests |-> Len(r.outcomes), ret |-> r.ret] :
               r \in RetryRuns(FoodRequest(id))} : id \in FdcIds}

\* faulty variant: the fetched food is returned but not written to the cache
AfterFetch_NoStore(c, food) == c

\* `if self.use_cache: self.cache.store_food(food)` (lines 179-181)
AfterFetch(c, food) == IF c.use_cache THEN store_food(c, food) ELSE c

\* USDAClient(use_cache): a client on the same database file
CacheNewClient ==
    /\ \E b \in BOOLEAN :
          cache' = [cache EXCEPT !.use_cache = b, !.call = NoCacheCall]
    /\ UNCHANGED <<optimization, usda, kroger, dashboard>>

\* NutritionCache.store_food(food)
CacheStoreFood ==
    /\ \E food \in USDAFoods :
          cache' = [store_food(cache, food) EXCEPT
                      !.call = [NoCacheCall EXCEPT
                                  !.op = "store_food", !.fdc_id = food.fdc_id,
                                  !.hit = /\ food.fdc_id \in DOMAIN cache.written
                                          /\ cache.written[food.fdc_id] # food,
                                  !.ret = Some(food)]]
    /\ UNCHANGED <<optimization, usda, kroger, dashboard>>

\* NutritionCache.get_food(fdc_id)
CacheGetFood ==
    /\ \E id \in FdcIds :
          cache' = [cache EXCEPT
                      !.call = [NoCacheCall EXCEPT
                                  !.op = "get_food", !.fdc_id = id,
                                  !.hit = id \in DOMAIN cache.usda_foods,
                                  !.ret = get_food(cache.usda_foods, id)]]
    /\ UNCHANGED <<optimization, usda, kroger, dashboard>>

\* NutritionCache.store_search_results(query, fdc_ids)
CacheStoreSearch ==
    /\ \E q \in Queries, ids \in IdLists :
          cache' = [cache EXCEPT
                      !.search_cache = Put(@, Normalized(q), ids),
                      !.call = [NoCacheCall EXCEPT
                                  !.op = "store_search_results", !.query = q]]
    /\ UNCHANGED <<optimization, usda, kroger, dashboard>>

\* NutritionCache.get_search_results(query)
CacheGetSearch ==
    /\ \E q \in Queries :
          cache' = [cache EXCEPT
                      !.call = [NoCacheCall EXCEPT
                                  !.op = "get_search_results", !.query = q,
                                  !.hit = Normalized(q) \in DOMAIN cache.search_cache,
                                  !.ret = IF Normalized(q) \in DOMAIN cache.search_cache
                                          THEN Some(cache.search_cache[Normalized(q)])
                                          ELSE None]]
    /\ UNCHANGED <<optimization, usda, kroger, dashboard>>

\* NutritionCache.clear_cache()
CacheClear ==
    /\ cache' = [cache EXCEPT !.usda_foods = << >>, !.search_cache = << >>,
                              !.written = << >>, !.replaced = {},
                              !.fetched = {},
                              !.call = [NoCacheCall EXCEPT !.op = "clear_cache"]]
    /\ UNCHANGED <<optimization, usda, kroger, dashboard>>

\* USDAClient.get_food_by_id(fdc_id), the whole call (lines 140-188)
UsdaGetFoodById ==
    /\ \E id \in FdcIds :
          LET cached == get_food(cache.usda_foods, id)
              began == [NoCacheCall EXCEPT !.op = "get_food_by_id", !.fdc_id = id,
                                           !.known = id \in cache.fetched]
          IN  IF cache.use_cache /\ ~IsNone(cached)
              THEN cache' = [cache EXCEPT
                               !.call = [began EXCEPT !.hit = TRUE, !.ret = cached]]
              ELSE \E run \in {r \in RunsSeen : r.fdc_id = id} :
                      LET sent == [began EXCEPT !.requests = run.requests]
                      IN  IF run.ret # Response("200")
                          THEN cache' = [cache EXCEPT !.call = sent]
                          ELSE \E raw_data \in RawFoods(id) :
                                  LET parsed == parse_food(raw_data)
                                  IN  IF parsed.kind # "food"
                                      THEN cache' = [cache EXCEPT !.call = sent]
                                      ELSE cache' =
                                             [AfterFetch(cache, parsed.food) EXCEPT
                                                !.fetched = IF cache.use_cache
                                                            THEN @ \cup {id} ELSE @,
                                                !.call = [sent EXCEPT
                                                            !.ret = Some(parsed.food)]]
    /\ UNCHANGED <<optimization, usda, kroger, dashboard>>

CacheNext ==
    \/ CacheNewClient
    \/ CacheStoreFood
    \/ CacheGetFood
    \/ CacheStoreSearch
    \/ CacheGetSearch
    \/ CacheClear
    \/ UsdaGetFoodById

SpecCache == Init /\ [][CacheNext]_vars


\* what the history of store_food calls since the last clear_cache says
\* get_food(fdc_id) must return
LastStored(fdc_id) ==
    IF fdc_id \in DOMAIN cache.written THEN Some(cache.written[fdc_id]) ELSE None

\* C27: get_food_by_id is a read-through cache. With caching enabled a
\* hit returns the cached food and sends no HTTP request, a miss goes to
\* the network, a miss followed by a successful fetch leaves the food in
\* the cache, and a call for an id fetched earlier (no clear_cache since)
\* sends no HTTP request.
C27_ReadThrough ==
    (cache.call.op = "get_food_by_id" /\ cache.use_cache) =>
        LET call == cache.call
            row == get_food(cache.usda_foods, call.fdc_id)
        IN  /\ call.hit => (call.requests = 0 /\ ~IsNone(call.ret) /\ call.ret = row)
            /\ ~call.hit => call.requests >= 1
            /\ (~call.hit /\ ~IsNone(call.ret)) => row = call.ret
            /\ (~call.hit /\ IsNone(call.ret)) => IsNone(row)
            /\ call.known => (call.requests = 0 /\ ~IsNone(call.ret))

C27_Witness ==
    /\ cache.call.op = "get_food_by_id"
    /\ cache.use_cache
    /\ cache.call.known
    /\ cache.call.hit
    /\ cache.call.requests = 0
    /\ cache.call.fdc_id \in cache.fetched

\* C28: get_food(id) returns the food given to the most recent
\* store_food with that id since the last clear_cache, field for field,
\* and None when there was none; each id has one record, the last written.
C28_LastWriteWins ==
    /\ \A id \in FdcIds : get_food(cache.usda_foods, id) = LastStored(id)
    /\ DOMAIN cache.usda_foods = DOMAIN cache.written
    /\ cache.call.op = "get_food" => cache.call.ret = LastStored(cache.call.fdc_id)

C28_Witness ==
    /\ cache.call.op = "get_food"
    /\ cache.call.fdc_id \in cache.replaced
    /\ cache.call.ret = Some(cache.written[cache.call.fdc_id])
    /\ Len(Val(cache.call.ret).nutrients) > 0


(***************************************************************************)
(* The dashboard (app.py): the Optimize button (optimize_enhanced), Start  *)
(* New Optimization, Save Plan (save_plan) and Load Plan.  Costs are in    *)
(* the units of the price lists; the timestamp, restrictions and           *)
(* track_micros entries of the stored result do not enter any decision.    *)
(***************************************************************************)
MaxBudget == 2     \* largest value of the "Max daily budget" slider
MaxDays == 2       \* largest "Number of days"
MaxHistory == 2    \* runs kept apart in optimization_history

\* st.session_state.foods_db: every food carries the four macros
Macros(e, p, c, f) ==
    <<NutrientInfo(Energy, e), NutrientInfo(Protein, p),
      NutrientInfo(Carbohydrate, c), NutrientInfo(Fat, f)>>

FoodsDb == ("chicken" :> Macros(1, 1, 1, 1)) @@ ("rice" :> Macros(2, 2, 2, 2))

\* all_foods after get_category and apply_restrictions (lines 404-413)
AllFoods == {[k \in S |-> FoodsDb[k]] : S \in SUBSET DOMAIN FoodsDb}

\* generate_mock_prices: a positive price for every food
MockPrices(fs) == [DOMAIN fs -> {1, MaxPrice}]

\* max_budget of the sidebar: the slider value, or None without the checkbox
Budgets == {None} \cup {Some(b) : b \in {1, MaxBudget}}

\* the sliders give positive targets and a tolerance inside (0, 1)
AppMacroArgs ==
    {a \in MacroArgs :
        /\ a.target_calories > 0 /\ a.target_protein_g > 0
        /\ a.target_carbs_g > 0 /\ a.target_fat_g > 0
        /\ a.tolerance \in 1..(TolDen - 1)}

\* `if num_days > 1:` the four targets are multiplied (lines 424-428)
Scaled(a, num_days) ==
    IF num_days > 1
    THEN [a EXCEPT !.target_calories = @ * num_days,
                   !.target_protein_g = @ * num_days,
                   !.target_carbs_g = @ * num_days,
                   !.target_fat_g = @ * num_days]
    ELSE a

\* `max_budget and result['total_cost'] > max_budget * num_days`
OverBudget(result, max_budget, num_days) ==
    /\ ~IsNone(max_budget)
    /\ Val(max_budget) # 0
    /\ result.total_cost > Val(max_budget) * num_days

\* the `if result:` branch (lines 447-464): warning, metadata, session state
StoreResult(s, result, max_budget, num_days) ==
    [s EXCEPT
       !.optimization_result = Some(result @@ [num_days |-> num_days]),
       !.optimization_history =
           Append(@, [cost |-> result.total_cost, num_foods |-> result.num_foods]),
       !.call = [NoAppCall EXCEPT
                   !.op = "optimize", !.max_budget = max_budget,
                   !.num_days = num_days,
                   !.warned = OverBudget(result, max_budget, num_days)]]

\* optimize_enhanced(...), the whole handler of the Optimize button
OptimizeEnhanced ==
    /\ Len(session.optimization_history) < MaxHistory
    /\ \E all_foods \in AllFoods, a \in AppMacroArgs,
          max_budget \in Budgets, num_days \in 1..MaxDays :
          LET began == [NoAppCall EXCEPT !.op = "optimize",
                                         !.max_budget = max_budget,
                                         !.num_days = num_days]
          IN  IF DOMAIN all_foods = {}
              THEN session' = [session EXCEPT
                                 !.call = [began EXCEPT !.error = Some("No foods")]]
              ELSE \E prices_ \in MockPrices(all_foods) :
                     LET ts == MacroTargets(Scaled(a, num_days))
                         p == BuildProblem(all_foods, prices_, ts, DefaultMaxQuantity)
                     IN  \E o \in SolverOutcomes(p) :
                            LET result == ExtractResult(all_foods, prices_, ts, p,
                                              o.status, VarValues(p, o.x))
                            IN  CASE result.kind = "result" ->
                                       session' = StoreResult(session, result,
                                                              max_budget, num_days)
                                  [] result.kind = "raise" ->
                                       session' = [session EXCEPT
                                          !.call = [began EXCEPT
                                                      !.error = Some(result.error)]]
                                  [] OTHER ->
                                       session' = [session EXCEPT
                                          !.call = [began EXCEPT
                                                      !.error = Some("No feasible solution")]]
    /\ UNCHANGED <<optimization, ingestion, saved_plans>>

\* "Start New Optimization" (lines 1023-1025)
StartNew ==
    /\ session' = [session EXCEPT !.optimization_result = None,
                                  !.call = [NoAppCall EXCEPT !.op = "reset"]]
    /\ UNCHANGED <<optimization, ingestion, saved_plans>>


\* what the user types into "Plan name"
PlanNames == {"Plan 1", "Plan_1", "Lunch"}

\* f"{name.replace(' ', '_')}.json"
PlanFile(name) ==
    CASE name = "Plan 1" -> "Plan_1.json"
      [] name = "Plan_1" -> "Plan_1.json"
      [] name = "Lunch" -> "Lunch.json"

\* result.get('num_days', 1)
NumDaysOf(result) == IF "num_days" \in DOMAIN result THEN result.num_days ELSE 1

\* serializable_result of save_plan (lines 1037-1046)
serializable_result(name, result) ==
    [name |-> name,
     total_cost |-> result.total_cost,
     num_foods |-> result.num_foods,
     total_nutrients |-> result.total_nutrients,
     targets |-> result.targets,
     num_days |-> NumDaysOf(result)]

\* save_plan(plan_name, result) of the "Save Plan" button; `given` remembers
\* the result the plan was saved from
SavePlan ==
    /\ ~IsNone(session.optimization_result)
    /\ \E name \in PlanNames :
          LET result == Val(session.optimization_result)
          IN  /\ saved_plans' =
                    Put(saved_plans, PlanFile(name),
                        [plan |-> serializable_result(name, result),
                         given |-> result])
              /\ session' = [session EXCEPT
                               !.call = [NoAppCall EXCEPT !.op = "save_plan",
                                                          !.selected_plan = name]]
    /\ UNCHANGED <<optimization, ingestion>>

\* load_saved_plans(): the JSON object of every file
load_saved_plans == {saved_plans[f].plan : f \in DOMAIN saved_plans}

\* "Load Plan" with a plan chosen in the selectbox (lines 384-389)
LoadPlan ==
    /\ \E selected_plan \in {p.name : p \in load_saved_plans} :
          LET plan == CHOOSE p \in load_saved_plans : p.name = selected_plan
              began == [NoAppCall EXCEPT !.op = "load_plan",
                                         !.selected_plan = selected_plan]
          IN  IF "result" \in DOMAIN plan
              THEN session' = [session EXCEPT
                                 !.optimization_result = Some(plan.result),
                                 !.call = began]
              ELSE session' = [session EXCEPT
                                 !.call = [began EXCEPT !.error = Some("KeyError")]]
    /\ UNCHANGED <<optimization, ingestion, saved_plans>>

AppNext ==
    \/ OptimizeEnhanced
    \/ StartNew
    \/ SavePlan
    \/ LoadPlan

SpecApp == Init /\ [][AppNext]_vars

\* C29: with a maximum budget set, optimize_enhanced never stores in
\* session state an optimization_result whose total_cost exceeds
\* max_budget * num_days.
C29_NeverStoresOverBudget ==
    (/\ session.call.op = "optimize"
     /\ IsNone(session.call.error)
     /\ ~IsNone(session.call.max_budget)) =>
        /\ ~IsNone(session.optimization_result)
        /\ Val(session.optimization_result).total_cost
              <= Val(session.call.max_budget) * session.call.num_days

\* what optimize_enhanced does about the budget: every stored result that
\* is over the budget was stored with the warning shown
C29_OverBudgetOnlyWarns ==
    (session.call.op = "optimize" /\ IsNone(session.call.error)) =>
        (session.call.warned <=>
            OverBudget(Val(session.optimization_result),
                       session.call.max_budget, session.call.num_days))

\* C30: save and load round-trip: after save_plan wrote a plan, Load Plan
\* of that plan sets optimization_result to the result the plan was saved
\* from, without raising.
C30_LoadRestoresSavedResult ==
    session.call.op = "load_plan" =>
        /\ IsNone(session.call.error)
        /\ session.optimization_result =
              Some(saved_plans[PlanFile(session.call.selected_plan)].given)

====
